---- MODULE Spec2Model ----
(***************************************************************************)
(* ByteBastion: the password-based file encryption module                  *)
(* (src/src/modules/aes_crypto.py, class AESCrypto) as a state machine     *)
(* over a small file system.  One action per public operation              *)
(* (encrypt_file, decrypt_file, run); the environment's failures (random   *)
(* source, key derivation, file I/O) are inputs of the actions.  A second  *)
(* specification runs the menu and the methods with any passphrase, a      *)
(* third runs encrypt_file in two threads, statement by statement.  The    *)
(* other modules (password generator, secure deletion, integrity checker,  *)
(* directory monitor, hidden file detector, temporary file cleaner) follow,*)
(* each with its own variable and its own specification.                   *)
(*                                                                         *)
(* The library primitives (PBKDF2-HMAC-SHA256, the AES-256 block           *)
(* permutation) are replaced by small deterministic stand-ins with the     *)
(* same shape: a key function of (password, salt), and a keyed bijection   *)
(* on 16-byte blocks.  CBC chaining, PKCS#7 padding, the container layout, *)
(* the path naming and every check and early return are the code's own.    *)
(***************************************************************************)
EXTENDS Integers, Sequences, FiniteSets, TLC

VARIABLES
    fs,     \* the file system: path -> [exists, data, origin]
    pre,    \* the file system as it was when the last call started
    last,   \* the last call: its inputs, its result, what it consumed
    calls,  \* number of calls made so far
    self,   \* the AESCrypto instance: its attributes
    ui,     \* how the last session of the menu (AESCrypto.run) ended
    thr,    \* the threads running encrypt_file: thread -> its locals and position
    console, \* the module's Console: the threads whose live display it shows
    pwgen,    \* PasswordGenerator.generate_password: its locals and position
    wiper,    \* DataDeletionUtility: the file to wipe and the position in the wipe
    checker,  \* FileIntegrityChecker: the database in memory and on disk
    monitor,  \* DirectorySyncMonitor: the events list and the two threads
    detector, \* HiddenFileDetector: the scan and what it recorded
    cleaner   \* TempFileCleaner: the scan and what it listed

\* the variables of the encryption module and those of the other modules
aes_vars == <<fs, pre, last, calls, self, ui, thr, console>>
others == <<pwgen, wiper, checker, monitor, detector, cleaner>>
vars == <<aes_vars, others>>

\* a module that is not in use
Idle == [pc |-> "idle"]
OthersIdle ==
    /\ pwgen = Idle
    /\ wiper = Idle
    /\ checker = Idle
    /\ monitor = Idle
    /\ detector = Idle
    /\ cleaner = Idle

(***************************************************************************)
(* Program constants (AESCrypto.__init__) and the model's bounds.          *)
(***************************************************************************)
salt_size == 16
iv_size == 16
key_size == 32
iterations == 100000
BlockSize == 16

MaxCalls == 2

\* AESCrypto(): the attributes __init__ sets
NewInstance ==
    [name |-> "AES Encryption/Decryption", salt_size |-> salt_size, iv_size |-> iv_size,
     key_size |-> key_size, iterations |-> iterations]

\* Mutant: the call keeps its password on the instance (self.password = password).
SelfAfterCall_KeepsPassword(inst, password) ==
    [f \in DOMAIN inst \cup {"password"} |-> IF f = "password" THEN password ELSE inst[f]]

\* The instance after encrypt_file, decrypt_file or derive_key: no statement
\* of theirs assigns an attribute of self.
SelfAfterCall(inst, password) == inst

(***************************************************************************)
(* Paths are character sequences, so that '+ ".enc"', endswith and [:-4]   *)
(* are computed as Python computes them.                                   *)
(***************************************************************************)
EncExt == <<".", "e", "n", "c">>
DecExt == <<".", "d", "e", "c">>
BaseNames == { <<"a">> }
Paths == BaseNames \cup { b \o e : b \in BaseNames, e \in {EncExt, DecExt} }

\* A file: whether it exists, its bytes and, as history, how it came to hold
\* them: who wrote it ("user", "encrypt", "encrypt_partial", "decrypt",
\* "decrypt_partial"), and for a container the plaintext and password it was
\* made from.
Origin(by, plain, password) == [by |-> by, plain |-> plain, password |-> password]
ByUser == Origin("user", <<>>, <<>>)
NoFile == [exists |-> FALSE, data |-> <<>>, origin |-> Origin("none", <<>>, <<>>)]
File(d, origin) == [exists |-> TRUE, data |-> d, origin |-> origin]

\* Mutant: the existence check always passes.
PathExists_Always(fsv, path) == TRUE

\* os.path.exists(path)
PathExists(fsv, path) == fsv[path].exists

\* str.endswith(suffix)
EndsWith(s, suffix) ==
    /\ Len(s) >= Len(suffix)
    /\ SubSeq(s, Len(s) - Len(suffix) + 1, Len(s)) = suffix

(***************************************************************************)
(* Python slices on byte strings.                                          *)
(***************************************************************************)
\* b[:n] for n >= 0
Take(b, n) == SubSeq(b, 1, IF n < Len(b) THEN n ELSE Len(b))
\* b[n:] for n >= 0
Drop(b, n) == SubSeq(b, n + 1, Len(b))
\* b[:-n] for a byte value n (b[:-0] is b[:0], the empty string)
DropLast(b, n) == IF n = 0 THEN <<>> ELSE Take(b, IF Len(b) > n THEN Len(b) - n ELSE 0)
\* bytes([v] * n)
Repeat(v, n) == [i \in 1..n |-> v]

(***************************************************************************)
(* Bitwise exclusive or of two bytes (CBC chaining).                       *)
(***************************************************************************)
RECURSIVE XorBits(_, _, _)
XorBits(a, b, n) ==
    IF n = 0 THEN 0
    ELSE ((a + b) % 2) + 2 * XorBits(a \div 2, b \div 2, n - 1)
\* the 256 x 256 table of a xor b, computed once (entry a * 256 + b + 1)
XorTable ==
    SubSeq([n \in 1..65536 |-> XorBits((n - 1) \div 256, (n - 1) % 256, 8)], 1, 65536)
Xor(a, b) == XorTable[a * 256 + b + 1]
XorBlock(x, y) == [i \in 1..BlockSize |-> Xor(x[i], y[i])]

(***************************************************************************)
(* Stand-in for PBKDF2HMAC(SHA256, length, salt, iterations)               *)
(* .derive(password.encode()): a deterministic function of the password    *)
(* bytes, the salt and the iteration count, `length` bytes long.  As in    *)
(* HMAC, the password enters as a key block padded with zero bytes to the  *)
(* hash's block size, so trailing zero bytes of a (short) password do not  *)
(* change the key.                                                         *)
(***************************************************************************)
RECURSIVE WeightedSum(_, _)
WeightedSum(bytes, i) ==
    IF i > Len(bytes) THEN 0 ELSE i * bytes[i] + WeightedSum(bytes, i + 1)

\* what the key block contributes: the sum of i * block[i] over the password
\* padded with zero bytes, which is the sum over the password's own bytes
HmacKeyWeight(password) == WeightedSum(password, 1)

PBKDF2HMACWith(length, iters, password, salt) ==
    LET base == (HmacKeyWeight(password) * 7 + iters + 1) % 256
    IN  SubSeq([i \in 1..length |->
                   (base + salt[((i - 1) % Len(salt)) + 1] * 3 + i * 5) % 256],
               1, length)

\* Mutant: the work factor grows with every call made so far.
PBKDF2HMAC_Stateful(password, salt) ==
    PBKDF2HMACWith(self.key_size, self.iterations + calls, password, salt)

\* PBKDF2HMAC(length=self.key_size, salt=salt, iterations=self.iterations)
PBKDF2HMAC(password, salt) ==
    PBKDF2HMACWith(self.key_size, self.iterations, password, salt)

\* Python's None, as a key: no bytes
None == <<>>

\* Mutant: on failure derive_key falls back to an all-zero key.
derive_key_ZeroKeyOnError(password, salt, kdfFails) ==
    IF kdfFails THEN Repeat(0, key_size) ELSE PBKDF2HMAC(password, salt)

\* derive_key returns None when the primitive raises
derive_key(password, salt, kdfFails) ==
    IF kdfFails THEN None ELSE PBKDF2HMAC(password, salt)

\* "if not key": None (and empty bytes) are falsy
KeyMissing(key) == key = None

(***************************************************************************)
(* Stand-in for the AES-256 block permutation: a keyed bijection on        *)
(* 16-byte blocks (rotate the positions, add key bytes mod 256).           *)
(***************************************************************************)
BlockEncrypt(key, b) ==
    [i \in 1..BlockSize |-> (b[(i % BlockSize) + 1] + key[i] + key[BlockSize + i]) % 256]
BlockDecrypt(key, c) ==
    [i \in 1..BlockSize |->
        LET j == ((i + BlockSize - 2) % BlockSize) + 1
        IN  (c[j] + 512 - key[j] - key[BlockSize + j]) % 256]

Block(data, k) == SubSeq(data, (k - 1) * BlockSize + 1, k * BlockSize)

\* Cipher(AES(key), CBC(iv)).encryptor(): update(data) + finalize()
RECURSIVE CBCEncryptFrom(_, _, _, _)
CBCEncryptFrom(key, prev, data, k) ==
    IF k * BlockSize > Len(data) THEN <<>>
    ELSE LET c == BlockEncrypt(key, XorBlock(Block(data, k), prev))
         IN  c \o CBCEncryptFrom(key, c, data, k + 1)

\* Mutant: the cipher chains from a zero block, not from the IV it was given.
CBCEncrypt_ZeroIV(key, iv, data) == CBCEncryptFrom(key, Repeat(0, BlockSize), data, 1)

CBCEncrypt(key, iv, data) == CBCEncryptFrom(key, iv, data, 1)

\* Cipher(AES(key), CBC(iv)).decryptor(): update(data) + finalize()
RECURSIVE CBCDecryptFrom(_, _, _, _)
CBCDecryptFrom(key, prev, data, k) ==
    IF k * BlockSize > Len(data) THEN <<>>
    ELSE LET c == Block(data, k)
         IN  XorBlock(BlockDecrypt(key, c), prev) \o CBCDecryptFrom(key, c, data, k + 1)

\* Mutant: the decryptor returns one block of padding for an empty ciphertext.
CBCDecrypt_BlockForEmpty(key, iv, data) ==
    IF data = <<>> THEN Repeat(BlockSize, BlockSize) ELSE CBCDecryptFrom(key, iv, data, 1)

CBCDecrypt(key, iv, data) == CBCDecryptFrom(key, iv, data, 1)

\* Mutant: finalize() never raises; a trailing partial block is dropped.
Finalize_IgnoresTail(data) == FALSE

\* finalize() raises ValueError when the data is not a whole number of blocks
FinalizeRaises(data) == Len(data) % BlockSize # 0

(***************************************************************************)
(* encrypt_file.  The inputs the environment decides are parameters: the   *)
(* salt and IV drawn by secrets.token_bytes, and the step (if any) at      *)
(* which the environment fails the call.  A failure raises inside the      *)
(* try block (or, for "kdf", inside derive_key, which returns None) and    *)
(* the handler returns False.                                              *)
(***************************************************************************)
EncryptFaults ==
    {"none", "rng", "kdf", "read", "cipher", "open", "write_salt", "write_iv", "write_ct"}

\* Mutant: no padding when the length is already a multiple of 16.
padding_length_NoFullBlock(plaintext) ==
    (BlockSize - (Len(plaintext) % BlockSize)) % BlockSize

\* padding_length = 16 - (len(plaintext) % 16)
padding_length(plaintext) == BlockSize - (Len(plaintext) % BlockSize)

\* plaintext += bytes([padding_length] * padding_length)
Pad(plaintext) ==
    plaintext \o Repeat(padding_length(plaintext), padding_length(plaintext))

\* Mutant: the container replaces the source file.
EncryptOutputPath_InPlace(input_path) == input_path

\* output_path = input_path + '.enc'
EncryptOutputPath(input_path) == input_path \o EncExt

\* What the output file holds after `written` was written to it and the
\* with-block closed it.  open(output_path, 'wb') creates or truncates it.
WriteFile(fsv, path, written, origin) == [fsv EXCEPT ![path] = File(written, origin)]

\* Mutant: the IV is not written.
Container_NoIV(salt, iv, ciphertext) == salt \o ciphertext

\* f.write(salt); f.write(iv); f.write(ciphertext)
Container(salt, iv, ciphertext) == salt \o iv \o ciphertext

\* Mutant: every call reports success.
CallResult_AlwaysTrue(result, fsv, rng, kdf, padded, out) ==
    [result |-> TRUE, fs |-> fsv, rng |-> rng, kdf |-> kdf,
     padded |-> padded, out |-> out]

\* The result of a call: the value returned, the file system it leaves, the
\* number of token_bytes and derive_key calls made, the padded plaintext
\* handed to the cipher, and the output path (<<>> when none was computed).
CallResult(result, fsv, rng, kdf, padded, out) ==
    [result |-> result, fs |-> fsv, rng |-> rng, kdf |-> kdf,
     padded |-> padded, out |-> out]

encrypt_file(fsv, input_path, password, salt, iv, fault) ==
    IF ~PathExists(fsv, input_path)
    THEN CallResult(FALSE, fsv, 0, 0, <<>>, <<>>)
    ELSE IF fault = "rng"
    THEN CallResult(FALSE, fsv, 0, 0, <<>>, <<>>)
    ELSE LET key == derive_key(password, salt, fault = "kdf") IN
    IF KeyMissing(key)
    THEN CallResult(FALSE, fsv, 2, 1, <<>>, <<>>)
    ELSE IF fault = "read"
    THEN CallResult(FALSE, fsv, 2, 1, <<>>, <<>>)
    ELSE LET plaintext == fsv[input_path].data
             padded == Pad(plaintext)
         IN
    IF fault = "cipher"
    THEN CallResult(FALSE, fsv, 2, 1, padded, <<>>)
    ELSE LET ciphertext == CBCEncrypt(key, iv, padded)
             output_path == EncryptOutputPath(input_path)
             partial == Origin("encrypt_partial", plaintext, password)
         IN
    CASE fault = "open" ->
            CallResult(FALSE, fsv, 2, 1, padded, output_path)
      [] fault = "write_salt" ->
            CallResult(FALSE, WriteFile(fsv, output_path, <<>>, partial),
                       2, 1, padded, output_path)
      [] fault = "write_iv" ->
            CallResult(FALSE, WriteFile(fsv, output_path, salt, partial),
                       2, 1, padded, output_path)
      [] fault = "write_ct" ->
            CallResult(FALSE, WriteFile(fsv, output_path, salt \o iv, partial),
                       2, 1, padded, output_path)
      [] OTHER ->
            CallResult(TRUE,
                       WriteFile(fsv, output_path, Container(salt, iv, ciphertext),
                                 Origin("encrypt", plaintext, password)),
                       2, 1, padded, output_path)

(***************************************************************************)
(* decrypt_file.                                                           *)
(***************************************************************************)
DecryptFaults == {"none", "read", "kdf", "open", "write"}

\* Mutant: only the salt's length is checked.
HeaderInvalid_SaltOnly(salt, iv) == Len(salt) # salt_size

\* len(salt) != self.salt_size or len(iv) != self.iv_size
HeaderInvalid(salt, iv) == Len(salt) # salt_size \/ Len(iv) # iv_size

\* Mutant: the padding is not stripped.
Unpad_KeepPadding(padded_plaintext) == padded_plaintext

\* padding_length = padded_plaintext[-1]; plaintext = padded_plaintext[:-padding_length]
Unpad(padded_plaintext) ==
    DropLast(padded_plaintext, padded_plaintext[Len(padded_plaintext)])

\* Mutant: '.dec' is appended whatever the input path ends in.
DecryptOutputPath_AlwaysDec(input_path) == input_path \o DecExt

\* input_path[:-4] when input_path.endswith('.enc'), else input_path + '.dec'
DecryptOutputPath(input_path) ==
    IF EndsWith(input_path, EncExt)
    THEN SubSeq(input_path, 1, Len(input_path) - 4)
    ELSE input_path \o DecExt

decrypt_file(fsv, input_path, password, fault) ==
    IF ~PathExists(fsv, input_path)
    THEN CallResult(FALSE, fsv, 0, 0, <<>>, <<>>)
    ELSE IF fault = "read"
    THEN CallResult(FALSE, fsv, 0, 0, <<>>, <<>>)
    ELSE LET data == fsv[input_path].data
             salt == Take(data, salt_size)
             iv == Take(Drop(data, salt_size), iv_size)
             ciphertext == Drop(data, salt_size + iv_size)
         IN
    IF HeaderInvalid(salt, iv)
    THEN CallResult(FALSE, fsv, 0, 0, <<>>, <<>>)
    ELSE LET key == derive_key(password, salt, fault = "kdf") IN
    IF KeyMissing(key)
    THEN CallResult(FALSE, fsv, 0, 1, <<>>, <<>>)
    ELSE IF FinalizeRaises(ciphertext)
    THEN CallResult(FALSE, fsv, 0, 1, <<>>, <<>>)
    ELSE LET padded_plaintext == CBCDecrypt(key, iv, ciphertext) IN
    IF padded_plaintext = <<>>       \* padded_plaintext[-1] raises IndexError
    THEN CallResult(FALSE, fsv, 0, 1, padded_plaintext, <<>>)
    ELSE LET plaintext == Unpad(padded_plaintext)
             output_path == DecryptOutputPath(input_path)
         IN
    CASE fault = "open" ->
            CallResult(FALSE, fsv, 0, 1, padded_plaintext, output_path)
      [] fault = "write" ->
            CallResult(FALSE,
                       WriteFile(fsv, output_path, <<>>, Origin("decrypt_partial", <<>>, password)),
                       0, 1, padded_plaintext, output_path)
      [] OTHER ->
            CallResult(TRUE,
                       WriteFile(fsv, output_path, plaintext, Origin("decrypt", <<>>, password)),
                       0, 1, padded_plaintext, output_path)

(***************************************************************************)
(* Inputs.                                                                 *)
(***************************************************************************)
\* passwords, as the bytes password.encode() yields: "p", "q", "p\x00"
Passwords == { <<112>>, <<113>>, <<112, 0>> }

\* what secrets.token_bytes(16) may return
Salts == { Repeat(3, salt_size), [i \in 1..salt_size |-> (i * 17) % 256] }
IVs == { Repeat(0, iv_size), [i \in 1..iv_size |-> (255 - i * 5) % 256] }

\* the file present at the start, if any
PlainLens == {0, 11, 16, 50}
\* each ends in the byte 1, which read alone is a valid one-byte pad
Plaintexts == { [i \in 1..n |-> n + 1 - i] : n \in PlainLens }

NoCall ==
    [op |-> "none", path |-> <<>>, password |-> <<>>, fault |-> "none",
     result |-> FALSE, rng |-> 0, kdf |-> 0, padded |-> <<>>, out |-> <<>>]

Call(op, path, password, fault, r) ==
    [op |-> op, path |-> path, password |-> password, fault |-> fault,
     result |-> r.result, rng |-> r.rng, kdf |-> r.kdf, padded |-> r.padded,
     out |-> r.out]

\* no thread has been started
NoThreads == <<>>

\* console = Console(): no live display is active.  nests tells whether the
\* installed rich lets a second live display start on a console that shows
\* one (rich 14.1 and later) or raises LiveError (earlier versions).
NewConsole == [live |-> {}, nests |-> FALSE]

\* the encryption module before any call, on an empty file system
AesIdle ==
    /\ fs = [p \in Paths |-> NoFile]
    /\ pre = fs
    /\ last = NoCall
    /\ calls = 0
    /\ self = NewInstance
    /\ ui = "menu"
    /\ thr = NoThreads
    /\ console = NewConsole

Init ==
    /\ \/ fs = [p \in Paths |-> NoFile]
       \/ \E d \in Plaintexts :
             fs = [p \in Paths |-> IF p = <<"a">> THEN File(d, ByUser) ELSE NoFile]
    /\ pre = fs
    /\ last = NoCall
    /\ calls = 0
    /\ self = NewInstance
    /\ ui = "menu"
    /\ thr = NoThreads
    /\ console = NewConsole
    /\ OthersIdle

\* The draws of secrets.token_bytes a call can tell apart: a call that fails
\* before it uses the salt (the IV) leaves the same state whatever was drawn.
UsesSalt(fault) == fault \in {"none", "write_iv", "write_ct"}
UsesIV(fault) == fault \in {"none", "write_ct"}
SaltDraws(fault) == IF UsesSalt(fault) THEN Salts ELSE { Repeat(3, salt_size) }
IVDraws(fault) == IF UsesIV(fault) THEN IVs ELSE { Repeat(0, iv_size) }

\* One call of encrypt_file(input_path, password), password in passwords
EncryptFileWith(passwords) ==
    /\ calls < MaxCalls
    /\ \E input_path \in Paths, password \in passwords :
          IF ~PathExists(fs, input_path)
          THEN \E r \in { encrypt_file(fs, input_path, password, <<>>, <<>>, "none") } :
                   /\ fs' = r.fs
                   /\ last' = Call("encrypt", input_path, password, "none", r)
                   /\ self' = SelfAfterCall(self, password)
          ELSE /\ EncryptOutputPath(input_path) \in Paths
               /\ \E fault \in EncryptFaults :
                    \E salt \in SaltDraws(fault), iv \in IVDraws(fault) :
                       \E r \in { encrypt_file(fs, input_path, password, salt, iv, fault) } :
                           /\ fs' = r.fs
                           /\ last' = Call("encrypt", input_path, password, fault, r)
                           /\ self' = SelfAfterCall(self, password)
    /\ pre' = fs
    /\ calls' = calls + 1
    /\ UNCHANGED <<ui, thr, console, others>>

\* One call of decrypt_file(input_path, password), password in passwords
DecryptFileWith(passwords) ==
    /\ calls < MaxCalls
    /\ \E input_path \in Paths, password \in passwords :
          IF ~PathExists(fs, input_path)
          THEN \E r \in { decrypt_file(fs, input_path, password, "none") } :
                   /\ fs' = r.fs
                   /\ last' = Call("decrypt", input_path, password, "none", r)
                   /\ self' = SelfAfterCall(self, password)
          ELSE /\ DecryptOutputPath(input_path) \in Paths
               /\ \E fault \in DecryptFaults :
                    \E r \in { decrypt_file(fs, input_path, password, fault) } :
                        /\ fs' = r.fs
                        /\ last' = Call("decrypt", input_path, password, fault, r)
                        /\ self' = SelfAfterCall(self, password)
    /\ pre' = fs
    /\ calls' = calls + 1
    /\ UNCHANGED <<ui, thr, console, others>>

EncryptFile == EncryptFileWith(Passwords)
DecryptFile == DecryptFileWith(Passwords)

Next == EncryptFile \/ DecryptFile

Spec == Init /\ [][Next]_vars

(***************************************************************************)
(* Properties.  They speak of the last call: its inputs and result (last), *)
(* the file system it started from (pre) and the one it left (fs).         *)
(***************************************************************************)
IsEncrypt == last.op = "encrypt"
IsDecrypt == last.op = "decrypt"
InputFile == pre[last.path]
InputExisted == last.op # "none" /\ InputFile.exists
NothingWritten == fs = pre
HeaderSize == salt_size + iv_size

\* the last byte n is in 1..16 and each of the last n bytes equals n
ValidPKCS7(padded) ==
    /\ padded # <<>>
    /\ LET n == padded[Len(padded)]
       IN  /\ 1 <= n
           /\ n <= BlockSize
           /\ n <= Len(padded)
           /\ \A i \in (Len(padded) - n + 1)..Len(padded) : padded[i] = n

\* the last call decrypted, with no environment failure, a container that a
\* successful encrypt_file wrote
DecryptsContainer ==
    /\ IsDecrypt
    /\ InputExisted
    /\ InputFile.origin.by = "encrypt"
    /\ last.fault = "none"

\* C1: round trip.  Decrypting, with the passphrase k, the container that
\* encrypt_file(path, k) wrote for plaintext p (k non-empty) returns True and
\* writes exactly p, at path.
C1_RoundTrip ==
    (/\ DecryptsContainer
     /\ last.password = InputFile.origin.password
     /\ last.password # <<>>)
    => /\ last.result = TRUE
       /\ last.out \o EncExt = last.path
       /\ fs[last.out].exists
       /\ fs[last.out].data = InputFile.origin.plain

\* a round trip of a plaintext that is an exact, non-zero multiple of 16 bytes
C1_Witness ==
    /\ DecryptsContainer
    /\ last.password = InputFile.origin.password
    /\ last.password # <<>>
    /\ Len(InputFile.origin.plain) = BlockSize
    /\ last.result = TRUE

\* C2: full PKCS#7 verification.  When the inverted cipher's output is not
\* validly padded, decryption fails and no plaintext is written.
C2_FullPaddingVerification ==
    (/\ IsDecrypt
     /\ InputExisted
     /\ last.fault = "none"
     /\ last.padded # <<>>
     /\ ~ValidPKCS7(last.padded))
    => /\ last.result = FALSE
       /\ NothingWritten

\* C3: decrypting a valid container with a (non-empty) passphrase other than
\* the (non-empty) one it was made with fails and writes no plaintext.
C3_WrongPassphraseFails ==
    (/\ DecryptsContainer
     /\ InputFile.origin.password # <<>>
     /\ last.password # <<>>
     /\ last.password # InputFile.origin.password)
    => /\ last.result = FALSE
       /\ NothingWritten

\* C4: a container shorter than 32 bytes is rejected for every passphrase,
\* before any key derivation or cipher step, and nothing is written.
C4_ShortContainerRejected ==
    (/\ IsDecrypt
     /\ InputExisted
     /\ Len(InputFile.data) < HeaderSize)
    => /\ last.result = FALSE
       /\ last.kdf = 0
       /\ last.padded = <<>>
       /\ NothingWritten

\* a container whose salt is complete and whose IV is missing is decrypted
\* with a non-empty passphrase and no environment failure
C4_Witness ==
    /\ IsDecrypt
    /\ InputExisted
    /\ Len(InputFile.data) = salt_size
    /\ last.password # <<>>
    /\ last.fault = "none"
    /\ last.result = FALSE

\* C5: a container of at least 32 bytes whose ciphertext region is not a
\* whole number of 16-byte blocks is rejected for every passphrase, and
\* nothing is written.
C5_RaggedCiphertextRejected ==
    (/\ IsDecrypt
     /\ InputExisted
     /\ Len(InputFile.data) >= HeaderSize
     /\ (Len(InputFile.data) - HeaderSize) % BlockSize # 0)
    => /\ last.result = FALSE
       /\ NothingWritten

\* a 50-byte file (one whole block and two more bytes after the header) is
\* decrypted with no environment failure
C5_Witness ==
    /\ IsDecrypt
    /\ InputExisted
    /\ Len(InputFile.data) > HeaderSize + BlockSize
    /\ (Len(InputFile.data) - HeaderSize) % BlockSize # 0
    /\ last.fault = "none"
    /\ last.password # <<>>
    /\ last.result = FALSE

\* C6: the container a successful encrypt_file writes for an n-byte
\* plaintext, at path + '.enc', is exactly 32 + 16 * (n \div 16 + 1) bytes
\* long (48 bytes for 11).
C6_ContainerLength ==
    (IsEncrypt /\ last.result = TRUE)
    => LET n == Len(InputFile.data)
           file == fs[last.path \o EncExt]
       IN  /\ file.exists
           /\ Len(file.data) = 32 + 16 * ((n \div 16) + 1)
           /\ Len(file.data) >= 32
           /\ (Len(file.data) - 32) % 16 = 0
           /\ (n = 11 => Len(file.data) = 48)

\* an 11-byte plaintext was encrypted into a 48-byte container
C6_Witness ==
    /\ IsEncrypt
    /\ last.result = TRUE
    /\ Len(InputFile.data) = 11
    /\ Len(fs[last.path \o EncExt].data) = 48

\* the last call was an encrypt_file that got as far as padding
EncryptPadded ==
    /\ IsEncrypt
    /\ InputExisted
    /\ last.fault \in {"none", "cipher", "open", "write_salt", "write_iv", "write_ct"}

\* C7: encrypt pads the plaintext with padLen = 16 - (len mod 16) bytes of
\* value padLen: padLen is in 1..16, the padded length is a multiple of 16,
\* and a full block is appended when the length is a multiple of 16.
C7_Padding ==
    EncryptPadded
    => LET plaintext == InputFile.data
           padLen == Len(last.padded) - Len(plaintext)
       IN  /\ padLen = 16 - (Len(plaintext) % 16)
           /\ padLen \in 1..16
           /\ SubSeq(last.padded, 1, Len(plaintext)) = plaintext
           /\ \A i \in (Len(plaintext) + 1)..Len(last.padded) : last.padded[i] = padLen
           /\ Len(last.padded) % 16 = 0
           /\ (Len(plaintext) % 16 = 0 => padLen = 16)

\* the empty plaintext was padded with a full block
C7_Witness ==
    /\ EncryptPadded
    /\ InputFile.data = <<>>
    /\ Len(last.padded) = BlockSize

\* C8: no partial output.  When encrypt_file fails before the final write
\* of the container, no file exists at input_path + '.enc' as a result of
\* the call: the call has written nothing.
C8_NoPartialOutput ==
    (/\ IsEncrypt
     /\ last.result = FALSE
     /\ last.fault # "write_ct")
    => NothingWritten

\* the last call reached derive_key and the key derivation failed
KeyDerivationFailed == last.op # "none" /\ last.fault = "kdf" /\ last.kdf >= 1

\* C9: when derive_key fails, encrypt_file and decrypt_file return False,
\* call derive_key once only, and create or modify no file.
C9_KeyDerivationFatal ==
    KeyDerivationFailed
    => /\ last.result = FALSE
       /\ last.kdf = 1
       /\ NothingWritten

\* key derivation failed while decrypting a container encrypt_file wrote
C9_Witness ==
    /\ KeyDerivationFailed
    /\ IsDecrypt
    /\ InputFile.origin.by = "encrypt"
    /\ last.result = FALSE

\* C10: a call on a path that does not exist returns False, draws no salt
\* or IV, derives no key and creates or modifies no file.
C10_MissingInput ==
    (last.op # "none" /\ ~InputFile.exists)
    => /\ last.result = FALSE
       /\ last.rng = 0
       /\ last.kdf = 0
       /\ NothingWritten

\* encrypt_file was called on a path that does not exist
C10_Witness ==
    /\ IsEncrypt
    /\ ~InputFile.exists
    /\ last.result = FALSE

\* the container at the output path of the last (encrypt) call holds a salt,
\* an IV and a ciphertext that the call's passphrase turns back into the
\* padded plaintext the call handed to the cipher
CompleteContainer ==
    LET file == fs[last.path \o EncExt]
        salt == Take(file.data, salt_size)
        iv == SubSeq(file.data, salt_size + 1, HeaderSize)
        ciphertext == Drop(file.data, HeaderSize)
    IN  /\ file.exists
        /\ Len(file.data) = HeaderSize + Len(last.padded)
        /\ Len(last.padded) >= BlockSize
        /\ CBCDecrypt(PBKDF2HMAC(last.password, salt), iv, ciphertext) = last.padded

\* the file at the output path of the last (decrypt) call holds the inverted
\* cipher's output without its last n bytes, n being its last byte
CompleteStrippedPlaintext ==
    LET file == fs[last.out]
        n == last.padded[Len(last.padded)]
    IN  /\ last.out \in Paths
        /\ file.exists
        /\ last.padded # <<>>
        /\ Len(file.data) = (IF n = 0 \/ n > Len(last.padded) THEN 0 ELSE Len(last.padded) - n)
        /\ file.data = Take(last.padded, Len(file.data))

MalformedResult ==
    decrypt_file([pre EXCEPT ![last.path] = File(Repeat(0, salt_size), ByUser)],
                 last.path, last.password, "none").result

\* C12: the caller can tell the error kinds apart.  When the inverted
\* cipher's output fails padding validation (wrong passphrase or corrupted
\* ciphertext), decrypt_file reports a failure, and the result it returns is
\* different from the one it returns for a structurally malformed container.
C12_ErrorKindsDistinguished ==
    (/\ IsDecrypt
     /\ InputExisted
     /\ last.fault = "none"
     /\ last.padded # <<>>
     /\ ~ValidPKCS7(last.padded))
    => /\ last.result # TRUE
       /\ last.result # MalformedResult

\* the key a newly constructed AESCrypto derives before any other operation
FreshKey(password, salt) ==
    PBKDF2HMACWith(NewInstance.key_size, NewInstance.iterations, password, salt)

EncryptedTwice ==
    /\ IsEncrypt
    /\ last.result = TRUE
    /\ pre[last.out].exists
    /\ pre[last.out].origin = Origin("encrypt", InputFile.data, last.password)

\* decrypt_file(container path, passphrase of the last call), run on the file
\* system fsv, returns True and writes `plain`
DecryptsTo(fsv, plain) ==
    \E r \in { decrypt_file(fsv, last.out, last.password, "none") } :
        /\ r.result = TRUE
        /\ r.fs[r.out].data = plain

\* C14 as stated: encrypting the same plaintext with the same passphrase
\* twice yields two different containers, and both decrypt with that
\* passphrase to the plaintext.
C14_AlwaysDifferentContainers ==
    EncryptedTwice
    => /\ fs[last.out].data # pre[last.out].data
       /\ DecryptsTo(fs, InputFile.data)
       /\ DecryptsTo(pre, InputFile.data)

\* C14, amended: each of the two encrypt_file calls draws a salt and an IV;
\* the two containers are equal exactly when both calls drew the same salt
\* and the same IV, and both decrypt with the passphrase to the plaintext.
C14_FreshSaltAndIV ==
    EncryptedTwice
    => /\ last.rng = 2
       /\ (fs[last.out].data = pre[last.out].data
           <=> Take(fs[last.out].data, HeaderSize) = Take(pre[last.out].data, HeaderSize))
       /\ DecryptsTo(fs, InputFile.data)
       /\ DecryptsTo(pre, InputFile.data)

\* the second encryption of a 50-byte plaintext drew the salt of the first
\* and another IV: the containers differ
C14_Witness ==
    /\ EncryptedTwice
    /\ Len(InputFile.data) = 50
    /\ Take(fs[last.out].data, salt_size) = Take(pre[last.out].data, salt_size)
    /\ fs[last.out].data # pre[last.out].data

\* the last call got as far as naming its output file
OutputNamed == last.op # "none" /\ last.out # <<>>

\* the four characters '.enc' and '.dec'
DotEnc == <<".", "e", "n", "c">>
DotDec == <<".", "d", "e", "c">>

\* q is some path followed by '.enc'
HasDotEnc(q) == Len(q) >= 4 /\ SubSeq(q, Len(q) - 3, Len(q)) = DotEnc

\* C15: output naming.  encrypt_file(p) writes to p + '.enc'; decrypt_file(q)
\* writes to q without its trailing '.enc' when q ends in '.enc' and to
\* q + '.dec' otherwise; the output path of decrypt_file on the output path
\* of encrypt_file(p) is p; the output path is never the input path.
C15_OutputNaming ==
    /\ \A p \in Paths :
          /\ EncryptOutputPath(p) = p \o DotEnc
          /\ DecryptOutputPath(EncryptOutputPath(p)) = p
          /\ DecryptOutputPath(p) # p
          /\ EncryptOutputPath(p) # p
    /\ OutputNamed
       => /\ last.out # last.path
          /\ IsEncrypt => last.out = last.path \o DotEnc
          /\ (IsDecrypt /\ HasDotEnc(last.path)) => last.out \o DotEnc = last.path
          /\ (IsDecrypt /\ ~HasDotEnc(last.path)) => last.out = last.path \o DotDec
          /\ last.result = TRUE => fs[last.out].exists

\* decrypt_file wrote to p what encrypt_file(p) had written to p + '.enc'
C15_Witness ==
    /\ OutputNamed
    /\ IsDecrypt
    /\ last.result = TRUE
    /\ InputFile.origin.by = "encrypt"
    /\ EncryptOutputPath(last.out) = last.path
    /\ fs[last.out].origin.by = "decrypt"

\* the last call, made again on the file system it started from, with the
\* same arguments, failure and (for some draw) salt and IV, returns the same
\* result and leaves the same file system
SameOutcomeReplayed ==
    IF IsEncrypt
    THEN \E salt \in SaltDraws(last.fault), iv \in IVDraws(last.fault) :
            \E r \in { encrypt_file(pre, last.path, last.password, salt, iv, last.fault) } :
                r.result = last.result /\ r.fs = fs
    ELSE \E r \in { decrypt_file(pre, last.path, last.password, last.fault) } :
            r.result = last.result /\ r.fs = fs

OutputPathOf(q) ==
    IF IsEncrypt THEN q \o DotEnc
    ELSE IF HasDotEnc(q) THEN SubSeq(q, 1, Len(q) - 4) ELSE q \o DotDec

\* C18: no side effects beyond the output.  Whether a call succeeds or
\* fails, encrypt_file leaves the source file, and decrypt_file the
\* container file, as it was, and every file other than the one at the
\* call's derived output path is as it was before the call (none is created,
\* changed or removed).
C18_OnlyOutputPathWritten ==
    last.op # "none"
    => /\ fs[last.path] = pre[last.path]
       /\ \A p \in Paths : p # OutputPathOf(last.path) => fs[p] = pre[p]

\* a successful encrypt_file replaced an older file at its output path while
\* its source file and a third file stayed as they were
C18_Witness ==
    /\ IsEncrypt
    /\ last.result = TRUE
    /\ pre[last.out].exists
    /\ fs[last.out] # pre[last.out]
    /\ fs[last.path] = pre[last.path]
    /\ fs[last.path].exists

\* C20: a wrong password never reproduces the plaintext.  When decrypt_file
\* is given the container encrypt_file(f, k) wrote and a passphrase other
\* than k, and it returns True with a file at f, the content of that file
\* differs from the plaintext that was encrypted.
C20_WrongPasswordNeverReproduces ==
    (/\ DecryptsContainer
     /\ last.password # InputFile.origin.password
     /\ last.result = TRUE
     /\ last.out \o DotEnc = last.path
     /\ fs[last.out].exists)
    => fs[last.out].data # InputFile.origin.plain

(***************************************************************************)
(* The menu, AESCrypto.run: one session reads a choice, a file path and a  *)
(* password (and, to encrypt, its confirmation), strips them, rejects an   *)
(* empty path, an empty password and a confirmation that differs, and      *)
(* calls encrypt_file or decrypt_file.                                     *)
(***************************************************************************)
Space == 32

\* str.strip(): without leading and trailing white space (sp: the space, as
\* a character of a path or as a byte of a password)
RECURSIVE Strip(_, _)
Strip(s, sp) ==
    IF s = <<>> THEN s
    ELSE IF s[1] = sp THEN Strip(Drop(s, 1), sp)
    ELSE IF s[Len(s)] = sp THEN Strip(Take(s, Len(s) - 1), sp)
    ELSE s

\* what the user may type: nothing, a space, "p", " p "; as a path: nothing,
\* a space, "a", "a.enc"
TypedPasswords == { <<>>, <<Space>>, <<112>>, <<Space, 112, Space>> }
TypedPaths == { <<>>, <<" ">>, <<"a">>, <<"a">> \o EncExt }
Choices == { "1", "2", "3", "9" }

\* "if not password"
PasswordEmpty(password) == password = <<>>

\* the session ends without a call of encrypt_file or decrypt_file
RunEnds(how) ==
    /\ ui' = how
    /\ UNCHANGED <<fs, pre, last, self, others>>

\* self.encrypt_file(file_path, password)
RunEncrypts(file_path, password) ==
    /\ ui' = "encrypt"
    /\ pre' = fs
    /\ IF ~PathExists(fs, file_path)
       THEN \E r \in { encrypt_file(fs, file_path, password, <<>>, <<>>, "none") } :
                /\ fs' = r.fs
                /\ last' = Call("encrypt", file_path, password, "none", r)
                /\ self' = SelfAfterCall(self, password)
       ELSE /\ EncryptOutputPath(file_path) \in Paths
            /\ \E fault \in EncryptFaults :
                 \E salt \in SaltDraws(fault), iv \in IVDraws(fault) :
                    \E r \in { encrypt_file(fs, file_path, password, salt, iv, fault) } :
                        /\ fs' = r.fs
                        /\ last' = Call("encrypt", file_path, password, fault, r)
                        /\ self' = SelfAfterCall(self, password)

\* self.decrypt_file(file_path, password)
RunDecrypts(file_path, password) ==
    /\ ui' = "decrypt"
    /\ pre' = fs
    /\ IF ~PathExists(fs, file_path)
       THEN \E r \in { decrypt_file(fs, file_path, password, "none") } :
                /\ fs' = r.fs
                /\ last' = Call("decrypt", file_path, password, "none", r)
                /\ self' = SelfAfterCall(self, password)
       ELSE /\ DecryptOutputPath(file_path) \in Paths
            /\ \E fault \in DecryptFaults :
                 \E r \in { decrypt_file(fs, file_path, password, fault) } :
                     /\ fs' = r.fs
                     /\ last' = Call("decrypt", file_path, password, fault, r)
                     /\ self' = SelfAfterCall(self, password)

\* One session of run()
Run ==
    /\ calls < MaxCalls
    /\ calls' = calls + 1
    /\ UNCHANGED <<thr, console, others>>
    /\ \E choice \in Choices, typed_path \in TypedPaths,
          typed_password \in TypedPasswords, typed_confirm \in TypedPasswords :
          LET file_path == Strip(typed_path, " ")
              password == Strip(typed_password, Space)
              confirm_password == Strip(typed_confirm, Space)
          IN  CASE choice = "1" ->
                     IF file_path = <<>> THEN RunEnds("no file path")
                     ELSE IF PasswordEmpty(password) THEN RunEnds("empty password")
                     ELSE IF password # confirm_password THEN RunEnds("no match")
                     ELSE RunEncrypts(file_path, password)
                [] choice = "2" ->
                     IF file_path = <<>> THEN RunEnds("no file path")
                     ELSE IF PasswordEmpty(password) THEN RunEnds("empty password")
                     ELSE RunDecrypts(file_path, password)
                [] choice = "3" -> RunEnds("return")
                [] OTHER -> RunEnds("invalid option")

\* the passwords a caller of the methods may pass: "" and "p"
AnyPasswords == { <<>>, <<112>> }

\* a caller other than the menu calls the public methods
CallEncryptFile == EncryptFileWith(AnyPasswords)
CallDecryptFile == DecryptFileWith(AnyPasswords)

NextRun == Run \/ CallEncryptFile \/ CallDecryptFile

SpecRun == Init /\ [][NextRun]_vars

\* C16: an empty passphrase is rejected at the boundary.  No call with an
\* empty passphrase derives a key, runs the cipher or writes a file.
C16_EmptyPassphraseRejected ==
    (last.op # "none" /\ last.password = <<>>)
    => /\ last.result = FALSE
       /\ last.kdf = 0
       /\ last.padded = <<>>
       /\ NothingWritten

(***************************************************************************)
(* encrypt_file in two threads, on two source files, one statement group   *)
(* per step.  The threads share the file system and the module's console:  *)
(* "with Progress(..., console=console)" starts a live display on it.      *)
(***************************************************************************)
Threads == {1, 2}
ThreadPath(t) == IF t = 1 THEN <<"a">> ELSE <<"b">>
ThreadPassword(t) == IF t = 1 THEN <<112>> ELSE <<113>>
ThreadPaths ==
    { ThreadPath(t) : t \in Threads } \cup { EncryptOutputPath(ThreadPath(t)) : t \in Threads }
ThreadPlaintexts == { d \in Plaintexts : Len(d) \in {11, 16} }

\* a thread about to execute the first statement of encrypt_file
ThreadStart ==
    [pc |-> "start", salt |-> <<>>, iv |-> <<>>, ciphertext |-> <<>>, result |-> FALSE]

InitConc ==
    /\ \E da \in ThreadPlaintexts, db \in ThreadPlaintexts :
          fs = [p \in ThreadPaths |->
                   IF p = ThreadPath(1) THEN File(da, ByUser)
                   ELSE IF p = ThreadPath(2) THEN File(db, ByUser)
                   ELSE NoFile]
    /\ pre = fs
    /\ last = NoCall
    /\ calls = 0
    /\ self = NewInstance
    /\ ui = "menu"
    /\ thr = [t \in Threads |-> ThreadStart]
    /\ \E nests \in BOOLEAN : console = [NewConsole EXCEPT !.nests = nests]
    /\ OthersIdle

\* return value: the thread is done
Returns(t, value) == [thr EXCEPT ![t].pc = "done", ![t].result = value]
Goto(t, pc) == [thr EXCEPT ![t].pc = pc]

\* f.write(bytes) on the open output file
FileAppend(fsv, path, written, origin) ==
    [fsv EXCEPT ![path] = File(@.data \o written, origin)]

\* lines 60-97: the existence test, the draws, the key, the read, the
\* padding and the cipher; all of it on the thread's own locals
Begin(t) ==
    /\ thr[t].pc = "start"
    /\ IF ~PathExists(fs, ThreadPath(t))
       THEN thr' = Returns(t, FALSE)
       ELSE \E salt \in Salts, iv \in IVs :
              LET key == derive_key(ThreadPassword(t), salt, FALSE)
                  padded == Pad(fs[ThreadPath(t)].data)
              IN  thr' = [thr EXCEPT ![t].pc = "progress", ![t].salt = salt, ![t].iv = iv,
                                     ![t].ciphertext = CBCEncrypt(key, iv, padded)]
    /\ UNCHANGED <<fs, pre, last, calls, self, ui, console, others>>

\* line 99, Progress.__enter__: Live.start calls console.set_live, which
\* raises LiveError when the console shows a live display and cannot nest
\* one; the exception is caught at line 129 and the call returns False
EnterProgress(t) ==
    /\ thr[t].pc = "progress"
    /\ IF console.live # {} /\ ~console.nests
       THEN thr' = Returns(t, FALSE) /\ UNCHANGED console
       ELSE /\ thr' = Goto(t, "open")
            /\ console' = [console EXCEPT !.live = @ \cup {t}]
    /\ UNCHANGED <<fs, pre, last, calls, self, ui, others>>

\* line 107: open(output_path, 'wb')
OpenOutput(t) ==
    /\ thr[t].pc = "open"
    /\ fs' = WriteFile(fs, EncryptOutputPath(ThreadPath(t)), <<>>,
                       Origin("encrypt_partial", fs[ThreadPath(t)].data, ThreadPassword(t)))
    /\ thr' = Goto(t, "write_salt")
    /\ UNCHANGED <<pre, last, calls, self, ui, console, others>>

\* line 109: f.write(salt)
WriteSalt(t) ==
    /\ thr[t].pc = "write_salt"
    /\ LET out == EncryptOutputPath(ThreadPath(t))
       IN  fs' = FileAppend(fs, out, thr[t].salt, fs[out].origin)
    /\ thr' = Goto(t, "write_iv")
    /\ UNCHANGED <<pre, last, calls, self, ui, console, others>>

\* line 110: f.write(iv)
WriteIV(t) ==
    /\ thr[t].pc = "write_iv"
    /\ LET out == EncryptOutputPath(ThreadPath(t))
       IN  fs' = FileAppend(fs, out, thr[t].iv, fs[out].origin)
    /\ thr' = Goto(t, "write_ciphertext")
    /\ UNCHANGED <<pre, last, calls, self, ui, console, others>>

\* line 111: f.write(ciphertext), and the file is closed
WriteCiphertext(t) ==
    /\ thr[t].pc = "write_ciphertext"
    /\ fs' = FileAppend(fs, EncryptOutputPath(ThreadPath(t)), thr[t].ciphertext,
                    Origin("encrypt", fs[ThreadPath(t)].data, ThreadPassword(t)))
    /\ thr' = Goto(t, "exit")
    /\ UNCHANGED <<pre, last, calls, self, ui, console, others>>

\* lines 113-128, Progress.__exit__: the live display is cleared; the panel
\* is printed and the call returns True
ExitProgress(t) ==
    /\ thr[t].pc = "exit"
    /\ console' = [console EXCEPT !.live = @ \ {t}]
    /\ thr' = Returns(t, TRUE)
    /\ UNCHANGED <<fs, pre, last, calls, self, ui, others>>

NextConc ==
    \E t \in Threads :
        \/ Begin(t)
        \/ EnterProgress(t)
        \/ OpenOutput(t)
        \/ WriteSalt(t)
        \/ WriteIV(t)
        \/ WriteCiphertext(t)
        \/ ExitProgress(t)

SpecConc == InitConc /\ [][NextConc]_vars

\* the container encrypt_file writes for thread t's file, passphrase, salt
\* and IV when it runs alone, from the initial file system
AloneContainer(t) ==
    encrypt_file(pre, ThreadPath(t), ThreadPassword(t), thr[t].salt, thr[t].iv, "none")
        .fs[EncryptOutputPath(ThreadPath(t))].data

\* C19: concurrent encryptions are independent.  For every interleaving of
\* two encrypt_file calls on two source files, each call returns True and
\* leaves the container it leaves when it runs alone (its salt, its IV, its
\* ciphertext), which decrypts with its passphrase to its own plaintext.
C19_ConcurrentEncryptionsIndependent ==
    \A t \in Threads :
        thr[t].pc = "done"
        => /\ thr[t].result = TRUE
           /\ fs[EncryptOutputPath(ThreadPath(t))].data = AloneContainer(t)
           /\ \E r \in { decrypt_file(fs, EncryptOutputPath(ThreadPath(t)),
                                      ThreadPassword(t), "none") } :
                 /\ r.result = TRUE
                 /\ r.fs[ThreadPath(t)].data = pre[ThreadPath(t)].data

\* C28: decrypt_file on a container of exactly 32 bytes (a salt, an IV and
\* no ciphertext) returns False and creates or modifies no file.
C28_HeaderOnlyContainerFails ==
    (/\ IsDecrypt
     /\ InputExisted
     /\ Len(InputFile.data) = 32)
    => /\ last.result = FALSE
       /\ last.out = <<>>
       /\ NothingWritten

\* a 32-byte file (what encrypt_file leaves when its write of the ciphertext
\* fails) passed the header test and the key derivation, and was rejected
C28_Witness ==
    /\ IsDecrypt
    /\ InputExisted
    /\ Len(InputFile.data) = salt_size + iv_size
    /\ last.fault = "none"
    /\ last.kdf = 1
    /\ last.result = FALSE

(***************************************************************************)
(* PasswordGenerator.generate_password                                     *)
(* (src/src/modules/password_generator.py), one step per statement group:  *)
(* the call, the class characters, each filling character, each swap of    *)
(* the shuffle, the return.  The random source is a tape of raw values,    *)
(* chosen when the call starts and read in turn, round and round:          *)
(* secrets.randbelow(n) is the next raw value modulo n, secrets.choice(s)  *)
(* is s[randbelow(len(s))].                                                *)
(***************************************************************************)
MinLength == 8
PwdMaxLength == 9
TapeLen == 3

ascii_lowercase ==
    << "a", "b", "c", "d", "e", "f", "g", "h", "i", "j", "k", "l", "m",
       "n", "o", "p", "q", "r", "s", "t", "u", "v", "w", "x", "y", "z" >>
ascii_uppercase ==
    << "A", "B", "C", "D", "E", "F", "G", "H", "I", "J", "K", "L", "M",
       "N", "O", "P", "Q", "R", "S", "T", "U", "V", "W", "X", "Y", "Z" >>
digits == << "0", "1", "2", "3", "4", "5", "6", "7", "8", "9" >>
symbols ==
    << "!", "@", "#", "$", "%", "^", "&", "*", "(", ")", "_", "+", "-",
       "=", "[", "]", "{", "}", "|", ";", ":", ",", ".", "<", ">", "?" >>

\* the requested lengths: one below the minimum, the minimum, and above
Lengths == (MinLength - 1)..PwdMaxLength
Flags == [use_lowercase : BOOLEAN, use_uppercase : BOOLEAN,
          use_digits : BOOLEAN, use_symbols : BOOLEAN]

\* the raw values of the random source, and its tapes
RawValues == { 0, 7, 30 }
Tapes == [1..TapeLen -> RawValues]

\* secrets.randbelow(n), as the draw number k + 1 of the call
randbelow(tape, k, n) == tape[(k % Len(tape)) + 1] % n
\* secrets.choice(seq), as the draw number k + 1 of the call
choice(tape, k, seq) == seq[randbelow(tape, k, Len(seq)) + 1]

\* Mutant: a length below the minimum is used as it is.
EffectiveLength_NoMinimum(length) == length

\* if length < 8: length = 8
EffectiveLength(length) == IF length < MinLength THEN MinLength ELSE length

\* Mutant: the swap overwrites position i and leaves position j as it was.
Swap_Overwrite(chars, i, j) == [chars EXCEPT ![i] = chars[j]]

\* password_chars[i], password_chars[j] = password_chars[j], password_chars[i]
\* (positions counted from 1)
Swap(chars, i, j) == [chars EXCEPT ![i] = chars[j], ![j] = chars[i]]

\* the class alphabets, in the order the code visits them, with their flags
ClassOrder ==
    << [flag |-> "use_lowercase", alphabet |-> ascii_lowercase],
       [flag |-> "use_uppercase", alphabet |-> ascii_uppercase],
       [flag |-> "use_digits", alphabet |-> digits],
       [flag |-> "use_symbols", alphabet |-> symbols] >>

\* lines 38-60: characters, after the classes k.. were visited in turn
RECURSIVE CharactersFrom(_, _)
CharactersFrom(flags, k) ==
    IF k > Len(ClassOrder) THEN <<>>
    ELSE (IF flags[ClassOrder[k].flag] THEN ClassOrder[k].alphabet ELSE <<>>)
         \o CharactersFrom(flags, k + 1)

\* lines 38-60: password_chars, after the classes k.. were visited in turn,
\* one secrets.choice per enabled class (each character so far is one draw)
RECURSIVE ClassPicksFrom(_, _, _, _)
ClassPicksFrom(flags, tape, k, picked) ==
    IF k > Len(ClassOrder) THEN picked
    ELSE IF flags[ClassOrder[k].flag]
         THEN ClassPicksFrom(flags, tape, k + 1,
                             Append(picked, choice(tape, Len(picked), ClassOrder[k].alphabet)))
         ELSE ClassPicksFrom(flags, tape, k + 1, picked)

\* what generate_password returns
ReturnsNone == [type |-> "None", value |-> <<>>]
ReturnsStr(chars) == [type |-> "str", value |-> chars]

\* generate_password(length, use_uppercase, use_digits, use_symbols,
\* use_lowercase) is called; lines 33-35
Generate ==
    /\ pwgen.pc = "idle"
    /\ \E length \in Lengths, flags \in Flags, tape \in Tapes :
          pwgen' = [pc |-> "classes", requested |-> length,
                    length |-> EffectiveLength(length), flags |-> flags,
                    tape |-> tape, draws |-> 0,
                    characters |-> <<>>, password_chars |-> <<>>, chosen |-> <<>>,
                    remaining |-> 0, i |-> 0, result |-> ReturnsNone]
    /\ UNCHANGED <<aes_vars, wiper, checker, monitor, detector, cleaner>>

\* lines 38-67: the character set and one character of each enabled class;
\* return None when no class is enabled
PickClassCharacters ==
    /\ pwgen.pc = "classes"
    /\ LET characters == CharactersFrom(pwgen.flags, 1)
           picked == ClassPicksFrom(pwgen.flags, pwgen.tape, 1, <<>>)
       IN  IF characters = <<>>
           THEN pwgen' = [pwgen EXCEPT !.pc = "done", !.result = ReturnsNone]
           ELSE pwgen' = [pwgen EXCEPT !.pc = "fill",
                                       !.characters = characters,
                                       !.password_chars = picked,
                                       !.draws = Len(picked),
                                       !.remaining = pwgen.length - Len(picked)]
    /\ UNCHANGED <<aes_vars, wiper, checker, monitor, detector, cleaner>>

\* lines 68-69: one turn of the filling loop
FillOne ==
    /\ pwgen.pc = "fill"
    /\ pwgen.remaining > 0
    /\ pwgen' = [pwgen EXCEPT
                    !.password_chars = Append(@, choice(pwgen.tape, pwgen.draws, pwgen.characters)),
                    !.draws = @ + 1,
                    !.remaining = @ - 1]
    /\ UNCHANGED <<aes_vars, wiper, checker, monitor, detector, cleaner>>

\* line 73: the filling loop is over; i = len(password_chars) - 1
StartShuffle ==
    /\ pwgen.pc = "fill"
    /\ pwgen.remaining <= 0
    /\ pwgen' = [pwgen EXCEPT !.pc = "shuffle", !.chosen = pwgen.password_chars,
                              !.i = Len(pwgen.password_chars) - 1]
    /\ UNCHANGED <<aes_vars, wiper, checker, monitor, detector, cleaner>>

\* lines 73-75: one turn of the shuffle, i counting down to 1
ShuffleStep ==
    /\ pwgen.pc = "shuffle"
    /\ pwgen.i >= 1
    /\ LET j == randbelow(pwgen.tape, pwgen.draws, pwgen.i + 1)
       IN  pwgen' = [pwgen EXCEPT !.password_chars = Swap(@, pwgen.i + 1, j + 1),
                                  !.draws = @ + 1,
                                  !.i = @ - 1]
    /\ UNCHANGED <<aes_vars, wiper, checker, monitor, detector, cleaner>>

\* line 77: return ''.join(password_chars)
ReturnPassword ==
    /\ pwgen.pc = "shuffle"
    /\ pwgen.i < 1
    /\ pwgen' = [pwgen EXCEPT !.pc = "done", !.result = ReturnsStr(pwgen.password_chars)]
    /\ UNCHANGED <<aes_vars, wiper, checker, monitor, detector, cleaner>>

InitPwd ==
    /\ AesIdle
    /\ OthersIdle

NextPwd ==
    \/ Generate
    \/ PickClassCharacters
    \/ FillOne
    \/ StartShuffle
    \/ ShuffleStep
    \/ ReturnPassword

SpecPwd == InitPwd /\ [][NextPwd]_vars

\* the password generator has returned
PwdDone == pwgen.pc = "done"
AnyClass(flags) == \E f \in DOMAIN flags : flags[f]

\* C21: generate_password returns a password of exactly the requested
\* length when that is 8 or more, and of length 8 when it is less, for every
\* non-empty selection of classes; with no class selected it returns None.
C21_PasswordLength ==
    PwdDone
    => IF AnyClass(pwgen.flags)
       THEN /\ pwgen.result.type = "str"
            /\ Len(pwgen.result.value)
                 = (IF pwgen.requested >= 8 THEN pwgen.requested ELSE 8)
       ELSE pwgen.result.type = "None"

\* a length of 7 was requested with all four classes, and the password
\* returned has 8 characters
C21_Witness ==
    /\ PwdDone
    /\ pwgen.requested = 7
    /\ \A f \in DOMAIN pwgen.flags : pwgen.flags[f]
    /\ pwgen.result.type = "str"
    /\ Len(pwgen.result.value) = 8

\* the characters of a sequence
CharsOf(chars) == { chars[k] : k \in 1..Len(chars) }
\* how often c occurs in a sequence
CountOf(chars, c) == Cardinality({ k \in 1..Len(chars) : chars[k] = c })

\* the characters the enabled classes allow
Allowed(flags) ==
    UNION { CharsOf(ClassOrder[k].alphabet) : k \in { n \in 1..4 : flags[ClassOrder[n].flag] } }

\* C22: a returned password has at least one character of each enabled
\* class and only characters of enabled classes; and during and after the
\* shuffle password_chars holds the characters chosen before it, each as
\* often as it was chosen.
C22_PasswordClasses ==
    /\ (PwdDone /\ pwgen.result.type = "str")
       => /\ \A k \in 1..4 :
                pwgen.flags[ClassOrder[k].flag]
                => CharsOf(pwgen.result.value) \cap CharsOf(ClassOrder[k].alphabet) # {}
          /\ CharsOf(pwgen.result.value) \subseteq Allowed(pwgen.flags)
          /\ \A c \in CharsOf(pwgen.chosen) \cup CharsOf(pwgen.result.value) :
                CountOf(pwgen.result.value, c) = CountOf(pwgen.chosen, c)
    /\ pwgen.pc = "shuffle"
       => \A c \in CharsOf(pwgen.chosen) \cup CharsOf(pwgen.password_chars) :
             CountOf(pwgen.password_chars, c) = CountOf(pwgen.chosen, c)

\* a password of lowercase letters and digits only was returned, in another
\* order than its characters were chosen in
C22_Witness ==
    /\ PwdDone
    /\ pwgen.result.type = "str"
    /\ pwgen.flags.use_lowercase /\ pwgen.flags.use_digits
    /\ ~pwgen.flags.use_uppercase /\ ~pwgen.flags.use_symbols
    /\ pwgen.result.value # pwgen.chosen
    /\ CharsOf(pwgen.result.value) \cap CharsOf(digits) # {}

(***************************************************************************)
(* DataDeletionUtility (data_deletion.py): secure_wipe_file overwrites a   *)
(* file three times and removes it; run asks for a path and a confirmation *)
(* and wipes only after confirm_deletion returned True.  One file path is  *)
(* modelled; a step is one statement of the write loops.                   *)
(***************************************************************************)
chunk_size == 4096

\* what is at the path before the call: nothing, a directory, or a file of
\* 0, 1, chunk_size, chunk_size + 1 bytes
WipeSizes == { 0, 1, chunk_size, chunk_size + 1 }
OrigData(n) == SubSeq([i \in 1..n |-> 65 + (i % 26)], 1, n)
NoWipeFile == [kind |-> "missing", data |-> <<>>]
WipeFiles ==
    { NoWipeFile, [kind |-> "dir", data |-> <<>>] }
      \cup { [kind |-> "file", data |-> OrigData(n)] : n \in WipeSizes }

\* secrets.token_bytes(n): n random bytes, here one of two sequences
TokenSeeds == { 1, 2 }
token_bytes(seed, n) == SubSeq([i \in 1..n |-> (seed * 37 + i * 11) % 256], 1, n)

\* what the user may type as the path and as the confirmation
WipePath == <<"f">>
TypedWipePaths == { <<>>, <<" ">>, WipePath, <<" ">> \o WipePath }
YES == <<"Y", "E", "S">>
TypedConfirmations ==
    { YES, <<" ">> \o YES \o <<" ">>, <<"y", "e", "s">>, <<"n", "o">>, <<>> }

\* the size of the next chunk of a pass
ChunkOf_WholeChunk(file_size, bytes_written) == chunk_size
ChunkOf(file_size, bytes_written) ==
    IF chunk_size < file_size - bytes_written
    THEN chunk_size ELSE file_size - bytes_written

\* f.write(bytes) at position pos of a file opened "r+b": the bytes replace
\* what is there and extend the file past its end
WriteAt(data, pos, bytes) ==
    Take(data, pos) \o bytes \o Drop(data, pos + Len(bytes))

\* the bytes a pass writes as one chunk
PassBytes(pass, seed, chunk) ==
    IF pass = 1 THEN SubSeq(Repeat(0, chunk), 1, chunk)
    ELSE IF pass = 2 THEN SubSeq(Repeat(255, chunk), 1, chunk)
    ELSE token_bytes(seed, chunk)

\* confirm_deletion: True only for an answer that is "YES" once stripped;
\* False when anything raises
confirm_deletion_Always(typed, raises) == TRUE
confirm_deletion(typed, raises) ==
    IF raises THEN FALSE ELSE Strip(typed, " ") = YES

WipeIdle(file) ==
    [pc |-> "idle", via |-> "none", file |-> file, initial |-> file,
     typed |-> <<>>, confirmed |-> "none", called |-> FALSE,
     file_size |-> 0, pass |-> 0, bytes_written |-> 0, turns |-> 0,
     result |-> "none"]

wipe_frame == <<aes_vars, pwgen, checker, monitor, detector, cleaner>>

\* run, lines 152-175: the path is read and stripped; an empty path, a path
\* that does not exist and a path that is not a file end the session
RunWipe ==
    /\ wiper.pc = "idle"
    /\ \E typed \in TypedWipePaths :
          LET file_path == Strip(typed, " ")
          IN  wiper' = [wiper EXCEPT
                  !.via = "run",
                  !.pc = IF file_path = <<>> \/ wiper.file.kind # "file"
                         THEN "done" ELSE "confirm"]
    /\ UNCHANGED wipe_frame

\* run, lines 178-182, and confirm_deletion, lines 115-150
ConfirmDeletion ==
    /\ wiper.pc = "confirm"
    /\ \E typed \in TypedConfirmations, raises \in BOOLEAN :
          LET ok == confirm_deletion(typed, raises)
          IN  wiper' = [wiper EXCEPT
                  !.typed = typed,
                  !.confirmed = IF ok THEN "True" ELSE "False",
                  !.called = ok,
                  !.pc = IF ok THEN "wipe" ELSE "done"]
    /\ UNCHANGED wipe_frame

\* secure_wipe_file called directly, as the test does
CallWipe ==
    /\ wiper.pc = "idle"
    /\ wiper' = [wiper EXCEPT !.via = "call", !.called = TRUE, !.pc = "wipe"]
    /\ UNCHANGED wipe_frame

\* lines 33-57: a missing file returns False; an empty file is removed at
\* once; otherwise the first pass opens the file
WipeBegin ==
    /\ wiper.pc = "wipe"
    /\ wiper.file.kind # "dir"
    /\ wiper' =
         IF wiper.file.kind = "missing"
         THEN [wiper EXCEPT !.pc = "done", !.result = "False"]
         ELSE IF Len(wiper.file.data) = 0
         THEN [wiper EXCEPT !.pc = "done", !.result = "True", !.file = NoWipeFile]
         ELSE [wiper EXCEPT !.pc = "pass", !.file_size = Len(wiper.file.data),
                            !.pass = 1, !.bytes_written = 0, !.turns = 0]
    /\ UNCHANGED wipe_frame

\* one turn of the loop of a pass, lines 60-64, 72-76, 84-88
WriteChunk ==
    /\ wiper.pc = "pass"
    /\ wiper.bytes_written < wiper.file_size
    /\ \E seed \in (IF wiper.pass = 3 THEN TokenSeeds ELSE { 1 }) :
          LET chunk == ChunkOf(wiper.file_size, wiper.bytes_written)
              bytes == PassBytes(wiper.pass, seed, chunk)
          IN  wiper' = [wiper EXCEPT
                  !.file.data = WriteAt(wiper.file.data, wiper.bytes_written, bytes),
                  !.bytes_written = wiper.bytes_written + chunk,
                  !.turns = wiper.turns + 1]
    /\ UNCHANGED wipe_frame

\* the loop of a pass ends, lines 66-67, 78-79, 90-91; the next pass opens
\* the file again
ClosePass ==
    /\ wiper.pc = "pass"
    /\ ~(wiper.bytes_written < wiper.file_size)
    /\ wiper' = IF wiper.pass < 3
                THEN [wiper EXCEPT !.pass = wiper.pass + 1,
                                   !.bytes_written = 0, !.turns = 0]
                ELSE [wiper EXCEPT !.pc = "remove"]
    /\ UNCHANGED wipe_frame

\* lines 94-107: os.remove, return True
RemoveFile ==
    /\ wiper.pc = "remove"
    /\ wiper' = [wiper EXCEPT !.pc = "done", !.result = "True", !.file = NoWipeFile]
    /\ UNCHANGED wipe_frame

\* lines 108-113: getsize, open, write, fsync or remove raises (a directory,
\* a read-only file, a full disk): return False
WipeRaises ==
    /\ wiper.pc \in { "wipe", "pass", "remove" }
    /\ wiper.file.kind # "missing"
    /\ wiper' = [wiper EXCEPT !.pc = "done", !.result = "False"]
    /\ UNCHANGED wipe_frame

InitWipe ==
    /\ AesIdle
    /\ pwgen = Idle /\ checker = Idle /\ monitor = Idle
    /\ detector = Idle /\ cleaner = Idle
    /\ wiper \in { WipeIdle(file) : file \in WipeFiles }

NextWipe ==
    \/ RunWipe
    \/ ConfirmDeletion
    \/ CallWipe
    \/ WipeBegin
    \/ WriteChunk
    \/ ClosePass
    \/ RemoveFile
    \/ WipeRaises

SpecWipe == InitWipe /\ [][NextWipe]_vars

\* a non-empty file was at the path when secure_wipe_file was called
WipesNonEmptyFile ==
    /\ wiper.called
    /\ wiper.initial.kind = "file"
    /\ Len(wiper.initial.data) > 0

\* the part of the file the current pass has written, and the part it has
\* not reached yet
Written == Take(wiper.file.data, wiper.bytes_written)
NotYetWritten == Drop(wiper.file.data, wiper.bytes_written)
AllBytes(data, v) == \A k \in 1..Len(data) : data[k] = v

\* the data is made of chunks that token_bytes returned
RECURSIVE RandomChunks(_)
RandomChunks(data) ==
    \/ data = <<>>
    \/ LET n == IF Len(data) < chunk_size THEN Len(data) ELSE chunk_size
       IN  /\ \E seed \in TokenSeeds : Take(data, n) = token_bytes(seed, n)
           /\ RandomChunks(Drop(data, n))

\* C23: on an existing non-empty file secure_wipe_file writes zeros in pass
\* 1, 0xFF in pass 2 and random bytes in pass 3, each over what the pass
\* before left complete; a pass has written min(turns * chunk_size,
\* file_size) bytes after its turns, so it ends after at most
\* ceil(file_size / chunk_size) turns having written file_size bytes, and the
\* file keeps its size; the file is gone only after the third pass is
\* complete, and it is gone whenever True is returned.
C23_WipeOrder ==
    /\ WipesNonEmptyFile
       => /\ wiper.pc \in { "pass", "remove" }
             => /\ wiper.file.kind = "file"
                /\ Len(wiper.file.data) = wiper.file_size
                /\ wiper.file_size = Len(wiper.initial.data)
                /\ wiper.bytes_written
                     = (IF wiper.turns * chunk_size < wiper.file_size
                        THEN wiper.turns * chunk_size ELSE wiper.file_size)
          /\ (wiper.pc = "pass" /\ wiper.pass = 1)
             => /\ AllBytes(Written, 0)
                /\ NotYetWritten = Drop(wiper.initial.data, wiper.bytes_written)
          /\ (wiper.pc = "pass" /\ wiper.pass = 2)
             => /\ AllBytes(Written, 255)
                /\ AllBytes(NotYetWritten, 0)
          /\ (wiper.pc = "pass" /\ wiper.pass = 3)
             => /\ RandomChunks(Written)
                /\ AllBytes(NotYetWritten, 255)
          /\ wiper.pc = "remove"
             => /\ wiper.pass = 3
                /\ wiper.bytes_written = wiper.file_size
                /\ RandomChunks(wiper.file.data)
          /\ wiper.file.kind = "missing"
             => /\ wiper.pc = "done"
                /\ wiper.result = "True"
                /\ wiper.pass = 3
                /\ wiper.bytes_written = wiper.file_size
    /\ wiper.result = "True" => wiper.file.kind = "missing"

\* a file of chunk_size + 1 bytes was wiped in two turns per pass and
\* removed
C23_Witness ==
    /\ WipesNonEmptyFile
    /\ Len(wiper.initial.data) = chunk_size + 1
    /\ wiper.pc = "done"
    /\ wiper.result = "True"
    /\ wiper.turns = 2
    /\ wiper.file.kind = "missing"

\* as C24 is worded: confirm_deletion returns True only for the answer "YES"
\* as typed
C24_OnlyExactYES ==
    wiper.confirmed = "True" => wiper.typed = YES

\* C24: confirm_deletion returns True only when the typed confirmation,
\* without leading and trailing white space, is "YES"; it does not change the
\* file; run calls secure_wipe_file only after confirm_deletion returned
\* True, and after any other answer the file is there with its content.
C24_ConfirmationGuardsDeletion ==
    /\ wiper.confirmed = "True" => Strip(wiper.typed, " ") = YES
    /\ wiper.via = "run"
       => /\ wiper.called => wiper.confirmed = "True"
          /\ wiper.pc \in { "confirm", "wipe" } => wiper.file = wiper.initial
          /\ wiper.confirmed = "False"
             => /\ wiper.pc = "done"
                /\ ~wiper.called
                /\ wiper.file = wiper.initial
                /\ wiper.file.kind = "file"

\* "yes" was typed in run: the file is still there
C24_Witness ==
    /\ wiper.via = "run"
    /\ wiper.typed = <<"y", "e", "s">>
    /\ wiper.confirmed = "False"
    /\ wiper.pc = "done"
    /\ wiper.file.kind = "file"
    /\ Len(wiper.file.data) = 1

(***************************************************************************)
(* FileIntegrityChecker (file_checker.py): the database of hashes in       *)
(* memory, loaded from integrity_database.json when the checker is         *)
(* constructed and written back by add_file_hash.  Two files in the        *)
(* working directory are modelled.                                         *)
(***************************************************************************)
Cwd == <<"/", "w">>
CheckedNames == { <<"a">>, <<"b">> }

\* os.path.abspath: a relative path is joined to the working directory
abspath(p) == IF p # <<>> /\ p[1] = "/" THEN p ELSE Cwd \o <<"/">> \o p

\* os.path.basename: what follows the last separator
RECURSIVE basename(_)
basename(p) ==
    IF p = <<>> \/ p[Len(p)] = "/" THEN <<>>
    ELSE basename(Take(p, Len(p) - 1)) \o <<p[Len(p)]>>

CheckedPaths == { abspath(n) : n \in CheckedNames }
\* the paths add_file_hash is called with: relative and absolute
TypedCheckerPaths == CheckedNames \cup CheckedPaths

\* what is at a path: nothing, a file, or a file that cannot be opened
CheckedContents == { <<>>, <<1>>, <<2, 3>> }
CheckedFiles ==
    { [kind |-> "missing", data |-> <<>>], [kind |-> "unreadable", data |-> <<1>>] }
      \cup { [kind |-> "file", data |-> d] : d \in CheckedContents }

\* hashlib.sha256(...).hexdigest(): a digest of the content (here 16 bits of
\* a weighted sum of the bytes and the length)
hexdigest(data) == (WeightedSum(data, 1) * 31 + Len(data) + 7) % 65536

\* calculate_sha256, lines 43-61: None when the file cannot be read
calculate_sha256(file) ==
    IF file.kind = "file"
    THEN [type |-> "str", value |-> hexdigest(file.data)]
    ELSE [type |-> "None", value |-> 0]

\* JSON values: an object of entries, or something that is not an object
NoEntries == [p \in {} |-> 0]
JsonObject(entries) == [type |-> "object", entries |-> entries]
JsonArray == [type |-> "array", entries |-> NoEntries]
EntryOf(file_path, file) ==
    [hash |-> hexdigest(file.data), filename |-> basename(file_path),
     size |-> Len(file.data)]

\* integrity_database.json: missing, not JSON, or JSON
DbMissing == [kind |-> "missing", value |-> JsonObject(NoEntries)]
DbCorrupt == [kind |-> "corrupt", value |-> JsonObject(NoEntries)]
DbJson(value) == [kind |-> "json", value |-> value]

\* _load_database, lines 22-31
_load_database(db_file) ==
    IF db_file.kind = "json" THEN db_file.value ELSE JsonObject(NoEntries)

\* self.database[abs_path] = {...}, lines 78-82
SetItem_Fresh(database, key, entry) ==
    JsonObject([p \in { key } |-> entry])
SetItem(database, key, entry) ==
    JsonObject([p \in DOMAIN database.entries \cup { key } |->
                   IF p = key THEN entry ELSE database.entries[p]])

\* _save_database, lines 33-41: the file is written, or open raises and the
\* file stays as it is, or json.dump raises and leaves a truncated file
SaveOutcomes == { "saved", "open raises", "dump raises" }
_save_database(db_file, database, outcome) ==
    IF outcome = "saved" THEN DbJson(database)
    ELSE IF outcome = "open raises" THEN db_file
    ELSE DbCorrupt

NoOp == [op |-> "none", file_path |-> <<>>, file |-> [kind |-> "missing", data |-> <<>>],
         before |-> JsonObject(NoEntries), saved |-> "none"]

\* the database files a checker may find when it is constructed
InitialDbFiles ==
    { DbMissing, DbCorrupt, DbJson(JsonArray), DbJson(JsonObject(NoEntries)) }
      \cup { DbJson(JsonObject([p \in { abspath(<<"b">>) } |->
                                  EntryOf(<<"b">>, [kind |-> "file", data |-> d])])) :
                d \in { <<1>> } }

check_frame == <<aes_vars, pwgen, wiper, monitor, detector, cleaner>>

\* FileIntegrityChecker(), lines 17-20
NewChecker ==
    /\ checker.pc = "ready"
    /\ checker' = [checker EXCEPT !.database = _load_database(checker.db_file),
                                  !.last = NoOp]
    /\ UNCHANGED check_frame

\* a file is written, removed or made unreadable by its owner
ChangeFile ==
    /\ checker.pc = "ready"
    /\ \E p \in CheckedPaths, file \in CheckedFiles :
          /\ file # checker.files[p]
          /\ checker' = [checker EXCEPT !.files[p] = file, !.last = NoOp]
    /\ UNCHANGED check_frame

\* add_file_hash(file_path), lines 63-94
AddFileHash ==
    /\ checker.pc = "ready"
    /\ \E file_path \in TypedCheckerPaths, outcome \in SaveOutcomes :
          LET file == checker.files[abspath(file_path)]
              file_hash == calculate_sha256(file)
              done == [op |-> "add", file_path |-> file_path, file |-> file,
                       before |-> checker.database, saved |-> "none"]
          IN  IF file.kind = "missing" \/ file_hash.type = "None"
              THEN /\ outcome = "saved"
                   /\ checker' = [checker EXCEPT !.last = done]
              ELSE IF checker.database.type # "object"
              THEN \* item assignment raises TypeError, caught at line 93
                   /\ outcome = "saved"
                   /\ checker' = [checker EXCEPT !.last = done]
              ELSE LET database == SetItem(checker.database, abspath(file_path),
                                           EntryOf(file_path, file))
                   IN  checker' = [checker EXCEPT
                           !.database = database,
                           !.db_file = _save_database(checker.db_file, database, outcome),
                           !.last = [done EXCEPT
                                       !.saved = IF outcome = "saved"
                                                 THEN "True" ELSE "False"]]
    /\ UNCHANGED check_frame

InitCheck ==
    /\ AesIdle
    /\ pwgen = Idle /\ wiper = Idle /\ monitor = Idle
    /\ detector = Idle /\ cleaner = Idle
    /\ \E db_file \in InitialDbFiles, files \in [CheckedPaths -> CheckedFiles] :
          checker = [pc |-> "ready", files |-> files, db_file |-> db_file,
                     database |-> _load_database(db_file), last |-> NoOp]

NextCheck ==
    \/ NewChecker
    \/ ChangeFile
    \/ AddFileHash

SpecCheck == InitCheck /\ [][NextCheck]_vars

\* add_file_hash has just completed on an existing readable file
AddedReadableFile ==
    /\ checker.last.op = "add"
    /\ checker.last.file.kind = "file"

\* the database file holds an entry for the file with its hash
PersistedEntry ==
    /\ checker.db_file.kind = "json"
    /\ checker.db_file.value.type = "object"
    /\ abspath(checker.last.file_path) \in DOMAIN checker.db_file.value.entries
    /\ checker.db_file.value.entries[abspath(checker.last.file_path)].hash
         = hexdigest(checker.last.file.data)

max_events == 50
ShownEvents == 20
MaxArrivals == 53

EventTypes == <<"Created", "Modified", "Deleted", "Moved">>
\* format_event, lines 32-49, for the n-th file event delivered
FormatEvent(n) == [seq |-> n, type |-> EventTypes[(n % 4) + 1]]

\* self.events.pop(0)
PopOldest_Newest(events) == Take(events, Len(events) - 1)
PopOldest(events) == Tail(events)

\* self.events[-20:] and reversed(...)
LastEvents(events) ==
    IF Len(events) > ShownEvents
    THEN SubSeq(events, Len(events) - ShownEvents + 1, Len(events)) ELSE events
Reversed(s) == SubSeq([k \in 1..Len(s) |-> s[Len(s) + 1 - k]], 1, Len(s))

NewMonitor ==
    [pc |-> "watching", events |-> <<>>, total |-> 0, obs |-> "idle",
     main |-> "sleep", title_len |-> 0, rows |-> <<>>]

monitor_frame == <<aes_vars, pwgen, wiper, checker, detector, cleaner>>

\* add_event, line 77: self.events.append(event)
AppendEvent ==
    /\ monitor.obs = "idle"
    /\ monitor.total < MaxArrivals
    /\ monitor' = [monitor EXCEPT
           !.events = Append(monitor.events, FormatEvent(monitor.total + 1)),
           !.total = monitor.total + 1,
           !.obs = "appended"]
    /\ UNCHANGED monitor_frame

\* add_event, lines 79-80: evict the oldest event when over the limit
EvictEvent ==
    /\ monitor.obs = "appended"
    /\ monitor' = [monitor EXCEPT
           !.events = IF Len(monitor.events) > max_events
                      THEN PopOldest(monitor.events) ELSE monitor.events,
           !.obs = "idle"]
    /\ UNCHANGED monitor_frame

\* create_events_table, lines 88-89: the title reads len(self.events)
ReadTitle ==
    /\ monitor.main = "sleep"
    /\ monitor' = [monitor EXCEPT !.title_len = Len(monitor.events),
                                  !.main = "titled"]
    /\ UNCHANGED monitor_frame

\* create_events_table, lines 99-100: if not self.events
TestEmpty ==
    /\ monitor.main = "titled"
    /\ monitor' = [monitor EXCEPT
           !.main = IF monitor.events = <<>> THEN "built" ELSE "rows"]
    /\ UNCHANGED monitor_frame

\* create_events_table, line 103: reversed(self.events[-20:])
ReadRows ==
    /\ monitor.main = "rows"
    /\ monitor' = [monitor EXCEPT !.rows = Reversed(LastEvents(monitor.events)),
                                  !.main = "built"]
    /\ UNCHANGED monitor_frame

\* monitor_directory, lines 172-175: the table is shown, the thread sleeps
UpdateLive ==
    /\ monitor.main = "built"
    /\ monitor' = [monitor EXCEPT !.main = "sleep", !.title_len = 0,
                                  !.rows = <<>>]
    /\ UNCHANGED monitor_frame

InitMon ==
    /\ AesIdle
    /\ pwgen = Idle /\ wiper = Idle /\ checker = Idle
    /\ detector = Idle /\ cleaner = Idle
    /\ monitor = NewMonitor

NextMon ==
    \/ AppendEvent
    \/ EvictEvent
    \/ ReadTitle
    \/ TestEmpty
    \/ ReadRows
    \/ UpdateLive

SpecMon == InitMon /\ [][NextMon]_vars

\* the events delivered, from the from-th to the to-th, in arrival order
Arrivals(from, to) ==
    SubSeq([k \in 1..(to - from + 1) |-> FormatEvent(from + k - 1)],
           1, to - from + 1)
AddEventReturned == monitor.obs = "idle"

\* C26: whenever add_event has returned, after n calls in all, events holds
\* the most recent min(n, max_events) events in arrival order (so a call on
\* a full list has evicted exactly the oldest) and is never longer than
\* max_events.
C26_MostRecentEvents ==
    AddEventReturned
    => LET n == monitor.total
           kept == IF n < max_events THEN n ELSE max_events
       IN  /\ Len(monitor.events) = kept
           /\ monitor.events = Arrivals(n - kept + 1, n)
           /\ Len(monitor.events) <= max_events

\* 52 events were added: the list holds the 3rd to the 52nd
C26_Witness ==
    /\ AddEventReturned
    /\ monitor.total = max_events + 2
    /\ Len(monitor.events) = max_events
    /\ monitor.events[1].seq = 3
    /\ monitor.events[max_events].seq = max_events + 2

\* C29: under every interleaving of add_event with create_events_table the
\* main thread never observes more than max_events events (in the length
\* it reads for the title and in the rows it reads), and events always
\* holds the latest arrivals without a gap.
C29_NeverObservesOverLimit ==
    /\ monitor.title_len <= max_events
    /\ Len(monitor.rows) <= max_events
    /\ monitor.events
         = Arrivals(monitor.total - Len(monitor.events) + 1, monitor.total)

(***************************************************************************)
(* HiddenFileDetector (hidden_detector.py): scan_directory walks a         *)
(* directory tree and records the hidden files it finds.  The tree is a    *)
(* chain of nested directories below the base path with one file at some   *)
(* level; a path is the sequence of its components.                        *)
(***************************************************************************)
DeepLevels == 10
max_depth == 20
MaxNesting == 12

BasePath == << <<"b">> >>
DirName == <<"d">>
HiddenName == <<".", "h">>
HiddenScript == <<".", "x", ".", "s", "h">>
PlainName == <<"v">>
ScannedNames == { HiddenName, HiddenScript, PlainName }
ScannedSize == 3
suspicious_exts == { <<".", "e", "x", "e">>, <<".", "d", "l", "l">>, <<".", "s", "o">>,
                     <<".", "d", "y", "l", "i", "b">>, <<".", "s", "h">>,
                     <<".", "b", "a", "t">>, <<".", "p", "s", "1">> }

\* the directory `levels` directories below the base path
RECURSIVE NestedDir(_)
NestedDir(levels) ==
    IF levels = 0 THEN BasePath ELSE Append(NestedDir(levels - 1), DirName)

\* os.path.relpath(path, base_path) for a path below base_path, as parts
relpath(path, base_path) == Drop(path, Len(base_path))
\* os.path.basename and os.path.dirname
name_of(path) == IF path = <<>> THEN <<>> ELSE path[Len(path)]
dirname(path) == Take(path, Len(path) - 1)

\* os.path.splitext(path)[1]: from the last dot of the name on, unless only
\* dots precede it
RECURSIVE LeadingDots(_)
LeadingDots(name) ==
    IF name # <<>> /\ name[1] = "." THEN 1 + LeadingDots(Tail(name)) ELSE 0
RECURSIVE LastDotAt(_, _)
LastDotAt(name, k) ==
    IF k = 0 THEN 0 ELSE IF name[k] = "." THEN k ELSE LastDotAt(name, k - 1)
splitext_ext(path) ==
    LET name == name_of(path)
        dot == LastDotAt(name, Len(name))
    IN  IF dot > LeadingDots(name) THEN Drop(name, dot - 1) ELSE <<>>

\* is_hidden_unix, lines 22-32
is_hidden_unix(path) ==
    LET name == name_of(path) IN name # <<>> /\ name[1] = "."

\* is_suspicious_location, lines 34-62
is_suspicious_location(path, base_path) ==
    LET depth == Len(relpath(path, base_path))
    IN  IF depth > DeepLevels
        THEN [suspicious |-> TRUE, reason |-> "Deeply nested (>10 levels)"]
        ELSE IF /\ is_hidden_unix(path)
                /\ ~is_hidden_unix(dirname(path))
                /\ splitext_ext(path) \in suspicious_exts
        THEN [suspicious |-> TRUE, reason |-> "Hidden executable (.sh)"]
        ELSE [suspicious |-> FALSE, reason |-> ""]

\* the trees scanned: `dirs` nested directories, one file at level file_at
ScannedTrees ==
    { [dirs |-> n, file_at |-> k, name |-> nm] :
         n \in 0..MaxNesting, k \in 0..MaxNesting, nm \in ScannedNames }

NewDetector(tree) ==
    [pc |-> "idle", tree |-> tree, recursive |-> TRUE, path |-> <<>>,
     current_depth |-> 0, listed |-> FALSE, hidden_files |-> <<>>,
     total_size |-> 0]

detector_frame == <<aes_vars, pwgen, wiper, checker, monitor, cleaner>>

\* scan_directory(dir_path, recursive=recursive), run, line 273
StartScan ==
    /\ detector.pc = "idle"
    /\ \E recursive \in BOOLEAN :
          detector' = [detector EXCEPT !.pc = "scan", !.recursive = recursive,
                                       !.path = BasePath, !.current_depth = 0,
                                       !.listed = FALSE]
    /\ UNCHANGED detector_frame

\* lines 74-93: the files of the directory being scanned
ScanFiles ==
    /\ detector.pc = "scan"
    /\ ~detector.listed
    /\ ~(detector.current_depth > max_depth)
    /\ LET item_path == Append(detector.path, detector.tree.name)
           found == is_suspicious_location(item_path, detector.path)
       IN  detector' =
             IF detector.tree.file_at = detector.current_depth
                /\ is_hidden_unix(item_path)
             THEN [detector EXCEPT
                     !.listed = TRUE,
                     !.hidden_files =
                        Append(detector.hidden_files,
                               [path |-> item_path, name |-> detector.tree.name,
                                size |-> ScannedSize,
                                suspicious |-> found.suspicious,
                                reason |-> found.reason,
                                depth |-> detector.current_depth]),
                     !.total_size = detector.total_size + ScannedSize]
             ELSE [detector EXCEPT !.listed = TRUE]
    /\ UNCHANGED detector_frame

\* lines 95-97: the recursive call on the subdirectory
ScanSubdirectory ==
    /\ detector.pc = "scan"
    /\ detector.listed
    /\ detector.recursive
    /\ detector.current_depth < detector.tree.dirs
    /\ detector' = [detector EXCEPT
           !.path = Append(detector.path, DirName),
           !.current_depth = detector.current_depth + 1,
           !.listed = FALSE]
    /\ UNCHANGED detector_frame

\* the loops over os.listdir end and the calls return; lines 71-72: a call
\* deeper than max_depth returns at once
ScanReturns ==
    /\ detector.pc = "scan"
    /\ \/ detector.current_depth > max_depth
       \/ /\ detector.listed
          /\ ~(detector.recursive /\ detector.current_depth < detector.tree.dirs)
    /\ detector' = [detector EXCEPT !.pc = "done"]
    /\ UNCHANGED detector_frame

InitDet ==
    /\ AesIdle
    /\ pwgen = Idle /\ wiper = Idle /\ checker = Idle
    /\ monitor = Idle /\ cleaner = Idle
    /\ \E tree \in ScannedTrees :
          /\ tree.file_at <= tree.dirs
          /\ detector = NewDetector(tree)

NextDet ==
    \/ StartScan
    \/ ScanFiles
    \/ ScanSubdirectory
    \/ ScanReturns

SpecDet == InitDet /\ [][NextDet]_vars

\* C27: every hidden file recorded by a recursive scan that lies more than
\* 10 levels below the base path of the scan is recorded as suspicious with
\* the reason 'Deeply nested (>10 levels)'.
C27_DeeplyNestedSuspicious ==
    \A k \in 1..Len(detector.hidden_files) :
       LET f == detector.hidden_files[k]
       IN  (detector.recursive /\ Len(relpath(f.path, BasePath)) > DeepLevels)
           => /\ f.suspicious
              /\ f.reason = "Deeply nested (>10 levels)"

(***************************************************************************)
(* TempFileCleaner (temp_cleaner.py): option 1 of run scans each of the    *)
(* safe temporary locations with scan_directory, which appends every file  *)
(* that is old enough to files_to_delete and adds its size to total_size.  *)
(* A path is the sequence of its components.                               *)
(***************************************************************************)
SafeScanDepth == 2

HomeDir == <<"home">>
CacheDir == HomeDir \o <<".cache">>
ThumbnailsDir == CacheDir \o <<"thumbnails">>
NormalDir == ThumbnailsDir \o <<"normal">>
LargeDir == NormalDir \o <<"large">>
TmpDir == <<"tmp">>
UserTmpDir == HomeDir \o <<".tmp">>
TempDirs == { CacheDir, ThumbnailsDir, NormalDir, LargeDir, TmpDir, UserTmpDir }

\* the files that may be there, one per directory
TempFiles ==
    { CacheDir \o <<"c">>, ThumbnailsDir \o <<"t">>, NormalDir \o <<"n">>,
      LargeDir \o <<"l">>, TmpDir \o <<"x">>, UserTmpDir \o <<"u">> }

\* what os.listdir may return in a directory, in the order it returns it
ListedNames == <<"c", "t", "n", "l", "x", "u", "thumbnails", "normal", "large">>

\* a file is absent or has an age in whole days
Absent == 0 - 1
FileAges == { 0, 1, 7 }
TempFileStates == { Absent } \cup FileAges

IsPrefixOf(p, q) == Len(p) <= Len(q) /\ SubSeq(q, 1, Len(p)) = p
\* os.path.isfile, os.path.isdir, os.path.exists: a directory is there when
\* a file is below it
isfile(tree, path) == path \in TempFiles /\ tree[path] # Absent
isdir(tree, path) ==
    /\ path \in TempDirs
    /\ \E f \in TempFiles : tree[f] # Absent /\ IsPrefixOf(path, f)
\* os.path.getsize
getsize(path) == Len(path)

\* os.listdir(path)
listdir(tree, path) ==
    SelectSeq(ListedNames,
              LAMBDA item : isfile(tree, Append(path, item)) \/ isdir(tree, Append(path, item)))

\* get_safe_temp_locations, lines 23-51
LocationIf(tree, path, age_filter) ==
    IF isdir(tree, path) THEN << [path |-> path, age_days |-> age_filter] >> ELSE <<>>
get_safe_temp_locations(tree) ==
    LocationIf(tree, ThumbnailsDir, 0) \o LocationIf(tree, CacheDir, 7)
      \o LocationIf(tree, TmpDir, 1) \o LocationIf(tree, UserTmpDir, 1)

\* is_file_old_enough, lines 53-73
is_file_old_enough(tree, file_path, days) ==
    IF days = 0 THEN TRUE ELSE tree[file_path] >= days

\* scan_directory, lines 75-108: found is [files_to_delete, total_size]
RECURSIVE scan_directory(_, _, _, _, _, _)
RECURSIVE scan_items(_, _, _, _, _, _, _)
scan_directory(tree, path, age_days, depth_limit, current_depth, found) ==
    IF current_depth > depth_limit THEN found
    ELSE scan_items(tree, listdir(tree, path), path, age_days, depth_limit,
                    current_depth, found)
scan_items(tree, items, path, age_days, depth_limit, current_depth, found) ==
    IF items = <<>> THEN found
    ELSE LET item == Head(items)
             item_path == Append(path, item)
             after ==
               IF isfile(tree, item_path)
               THEN IF is_file_old_enough(tree, item_path, age_days)
                    THEN [files_to_delete |->
                             Append(found.files_to_delete,
                                    [path |-> item_path, size |-> getsize(item_path),
                                     name |-> item]),
                          total_size |-> found.total_size + getsize(item_path)]
                    ELSE found
               ELSE IF isdir(tree, item_path)
               THEN scan_directory(tree, item_path, age_days, depth_limit,
                                   current_depth + 1, found)
               ELSE found
         IN  scan_items(tree, Tail(items), path, age_days, depth_limit,
                        current_depth, after)

NewCleaner(tree) ==
    [pc |-> "idle", tree |-> tree, locations |-> <<>>, scanned |-> 0,
     files_to_delete |-> <<>>, total_size |-> 0]

cleaner_frame == <<aes_vars, pwgen, wiper, checker, monitor, detector>>

\* run, option 1, lines 282-286
ChooseSafeLocations ==
    /\ cleaner.pc = "idle"
    /\ cleaner' = [cleaner EXCEPT !.pc = "scanning",
                                  !.locations = get_safe_temp_locations(cleaner.tree),
                                  !.scanned = 0]
    /\ UNCHANGED cleaner_frame

\* run, lines 295-297: one scan_directory call per location
ScanLocation ==
    /\ cleaner.pc = "scanning"
    /\ cleaner.scanned < Len(cleaner.locations)
    /\ LET location == cleaner.locations[cleaner.scanned + 1]
           found == scan_directory(cleaner.tree, location.path, location.age_days,
                                   SafeScanDepth, 0,
                                   [files_to_delete |-> cleaner.files_to_delete,
                                    total_size |-> cleaner.total_size])
       IN  cleaner' = [cleaner EXCEPT !.scanned = cleaner.scanned + 1,
                                      !.files_to_delete = found.files_to_delete,
                                      !.total_size = found.total_size]
    /\ UNCHANGED cleaner_frame

\* run, line 299: display_scan_report
ReportScan ==
    /\ cleaner.pc = "scanning"
    /\ cleaner.scanned = Len(cleaner.locations)
    /\ cleaner' = [cleaner EXCEPT !.pc = "reported"]
    /\ UNCHANGED cleaner_frame

InitClean ==
    /\ AesIdle
    /\ pwgen = Idle /\ wiper = Idle /\ checker = Idle
    /\ monitor = Idle /\ detector = Idle
    /\ \E tree \in [TempFiles -> TempFileStates] : cleaner = NewCleaner(tree)

NextClean ==
    \/ ChooseSafeLocations
    \/ ScanLocation
    \/ ReportScan

SpecClean == InitClean /\ [][NextClean]_vars

\* the paths listed, and the sum of the sizes of the distinct files listed
ListedPaths ==
    { cleaner.files_to_delete[k].path : k \in 1..Len(cleaner.files_to_delete) }
RECURSIVE SumOfSizes(_)
SumOfSizes(paths) ==
    IF paths = {} THEN 0
    ELSE LET p == CHOOSE q \in paths : TRUE
         IN  getsize(p) + SumOfSizes(paths \ { p })

\* C30: after the scan of the safe locations every file path is listed at
\* most once in files_to_delete, and total_size is the sum of the sizes of
\* the distinct files listed.
C30_NoFileListedTwice ==
    cleaner.pc = "reported"
    => /\ Cardinality(ListedPaths) = Len(cleaner.files_to_delete)
       /\ cleaner.total_size = SumOfSizes(ListedPaths)

====
